---- MODULE Spec2Model ----
(***************************************************************************)
(* A model of the mygopher utility packages: the gophertoken package       *)
(* (Payload, JWTMaker, PasetoMaker, NewTokenManager), the "connect with    *)
(* retry" helpers of gophermongo / gopherpostgres / mygopher*, the         *)
(* SetUpLoggerFile functions, the email services of gophersmtp and the     *)
(* servers of gophergin / gopherfiber.  Each part has its own variables    *)
(* and its own specification.                                              *)
(*                                                                         *)
(* Time is counted in ticks; TicksPerSec ticks make one second, so that    *)
(* the truncation of time.Time to Unix seconds done by the JWT backend is  *)
(* visible.  Cryptography is symbolic: an HMAC is the record of the key    *)
(* and of the bytes it was computed over, a sealed Paseto body is the      *)
(* record of the key and the plaintext.                                    *)
(***************************************************************************)
EXTENDS Integers, Sequences, FiniteSets, TLC

VARIABLES now, managers, held, issued, rng, ret, conn, lg, mail, srv, pg, bulk,
          ch

tokenVars == <<now, held, issued, rng, ret>>
\* the state of the token package and of everything but it
tokenSide == <<now, managers, held, issued, rng, ret>>
others == <<lg, mail, srv, pg, bulk, ch>>
\* what the actions of one part leave unchanged
notLogger == <<tokenSide, conn, mail, srv, pg, bulk, ch>>
notMail == <<tokenSide, conn, lg, srv, pg, bulk, ch>>
notServer == <<tokenSide, conn, lg, mail, pg, bulk, ch>>
notPostgres == <<tokenSide, conn, lg, mail, srv, bulk, ch>>
notBulk == <<tokenSide, conn, lg, mail, srv, pg, ch>>
notChan == <<tokenSide, conn, lg, mail, srv, pg, bulk>>
vars == <<now, managers, held, issued, rng, ret, conn, lg, mail, srv, pg,
          bulk, ch>>

----------------------------------------------------------------------------
(* Bounds of the model. *)

\* the clock runs from 0 to MaxTime ticks
MaxTime == 3
\* ticks per second (the resolution below which Unix() truncates)
TicksPerSec == 2
\* at most this many managers are registered by the constructors' callers
MaxManagers == 2
\* at most this many GenerateToken calls are made in one behaviour
MaxIssued == 2
\* the logger's clock runs from 0 to MaxLogClock seconds
MaxLogClock == 1
\* at most this many messages are logged by the application
MaxMsgs == 2
\* at most this many SetUpLoggerFile calls are made in one behaviour
MaxSetups == 2
\* the mail clock runs from 0 to MaxMailClock
MaxMailClock == 2
\* at most this many calls are made on the email services in one behaviour
MaxCalls == 2
\* length of the recipient list of a bulk send
MaxRecipients == 3
\* EmailRoutineService instances, and goroutines their send methods start
MaxServices == 2
MaxGoroutines == 3
\* at most this many interrupt signals reach the process
MaxInterrupts == 2
\* at most this many requests are in flight at a time
MaxInflight == 2
\* at most this many CheckAndEnableUUIDExtension calls in one behaviour
MaxExtCalls == 3
\* the connect helpers are called with maxRetries from -1 to MaxRetries
MaxRetries == 3

----------------------------------------------------------------------------
(* Values. *)

\* chacha20poly1305.KeySize
KeySize == 32

Key32A == "0123456789abcdef0123456789abcdef"
Key32B == "fedcba9876543210fedcba9876543210"
Key33 == "0123456789abcdef0123456789abcdef0"
\* secret keys handed to the constructors: empty, shorter than KeySize, two
\* of KeySize bytes, longer than KeySize
Keys == {"", "your-secret-key", Key32A, Key32B, Key33}
\* the keys of the managers that issue and validate tokens below
LiveKeys == {Key32A, Key32B}

TokenTypeJWT == "jwt"
TokenTypePaseto == "paseto"
\* tokenType strings handed to NewTokenManager
TokenTypes == {TokenTypeJWT, TokenTypePaseto, "JWT", "", "rsa"}

\* the users tokens are issued for: a uuid.UUID and a username each (the
\* random token IDs are drawn from rng, and 1 is one of them)
Users == {[userID |-> 1, username |-> "alice"], [userID |-> 200, username |-> "bob"]}
\* time.Duration values in ticks: negative, zero, below a second, a second
Durations == {-1, 0, 1, TicksPerSec}

NoErr == "nil"
ErrInvalidToken == "token validation failed: signature invalid or claims malformed"
ErrExpiredToken == "token validation failed: token has expired"
ErrKeyNotSet == "symmetric key must be set"
ErrKeySize == "invalid key size: must be exactly 32 bytes"
ErrRand == "uuid: rand read failed"
Panic == "panic"

----------------------------------------------------------------------------
(* time.Time, uuid.UUID and their encodings. *)

\* time.Time.Unix(): seconds since the epoch, sub-second part dropped
Unix(t) == t \div TicksPerSec

\* time.Unix(sec, 0)
TimeUnix(sec) == sec * TicksPerSec

\* a faulty After that also holds at the instant itself (C6 tells it apart)
After_NotBefore(t, u) == t >= u

\* time.Time.After
After(t, u) == t > u

\* uuid.UUID.String(): the textual form, here two base-16 digits
UUIDString(u) == <<u \div 16, u % 16>>

\* uuid.Parse: the UUID a text denotes, <<>> when it is not a UUID text
UUIDParse(s) ==
    IF /\ DOMAIN s = 1..2
       /\ s[1] \in 0..15
       /\ s[2] \in 0..15
    THEN <<s[1] * 16 + s[2]>>
    ELSE <<>>

----------------------------------------------------------------------------
(* Payload.go *)

\* a faulty NewPayload that takes the token ID from the user (C9 tells it
\* apart)
NewPayload_IDFromUser(userID, username, duration, tokenID, t1, t2) ==
    [ID |-> userID,
     UserID |-> userID,
     Username |-> username,
     IssuedAt |-> t1,
     ExpiredAt |-> t2 + duration]

\* NewPayload with the UUID drawn (tokenID) and the two clock readings (t1,
\* t2) made explicit
NewPayload(userID, username, duration, tokenID, t1, t2) ==
    [ID |-> tokenID,
     UserID |-> userID,
     Username |-> username,
     IssuedAt |-> t1,
     ExpiredAt |-> t2 + duration]

\* a faulty Valid that reports expiry as ErrInvalidToken (C3 tells it apart)
Valid_WrongError(payload, t) ==
    IF payload.ExpiredAt < t THEN ErrInvalidToken ELSE NoErr

\* Payload.Valid at clock reading t
Valid(payload, t) ==
    IF After(t, payload.ExpiredAt) THEN ErrExpiredToken ELSE NoErr

----------------------------------------------------------------------------
(* JwtMaker.go *)

\* NewJWTMaker: a manager, or nil and an error when the key is empty
NewJWTMaker(secretKey) ==
    IF Len(secretKey) = 0
    THEN [mgr |-> <<>>, err |-> ErrKeyNotSet]
    ELSE [mgr |-> <<[backend |-> TokenTypeJWT, symmetricKey |-> secretKey]>>,
          err |-> NoErr]

\* the signing methods of golang-jwt that are *jwt.SigningMethodHMAC
HMACMethods == {"HS256", "HS384", "HS512"}

\* HMAC of the signing input (header and claims segments) under key
HMAC(key, alg, claims) == [key |-> key, alg |-> alg, claims |-> claims, bits |-> 0]

\* jwt.MapClaims built by JWTMaker.GenerateToken
JWTClaims(payload) ==
    [id |-> UUIDString(payload.ID),
     user_id |-> UUIDString(payload.UserID),
     username |-> payload.Username,
     issued_at |-> Unix(payload.IssuedAt),
     expired_at |-> Unix(payload.ExpiredAt)]

\* JWTMaker.GenerateToken, given the payload NewPayload returned
JWTGenerateToken(j, payload) ==
    LET claims == JWTClaims(payload) IN
    [token |-> <<[kind |-> "jwt",
                  alg |-> "HS256",
                  claims |-> claims,
                  sig |-> HMAC(j.symmetricKey, "HS256", claims)]>>,
     err |-> NoErr]

\* the signature segment of an unsigned token (alg "none"): empty
NoneSig(claims) == [key |-> "", alg |-> "none", claims |-> claims, bits |-> 0]

\* the signature check of the token's signing method: an HMAC method
\* recomputes the HMAC under the key, "none" wants an empty signature, and
\* an asymmetric method cannot verify under a byte-string key
Verifies(alg, key, claims, sig) ==
    IF alg \in HMACMethods THEN sig = HMAC(key, alg, claims)
    ELSE IF alg = "none" THEN sig = NoneSig(claims)
    ELSE FALSE

\* a faulty parse that does not verify the signature (C5 tells it apart)
JWTParseOK_Unverified(j, tokenString) ==
    /\ tokenString.kind = "jwt"
    /\ tokenString.alg \in HMACMethods

\* a faulty parse whose key function hands the key to every signing method
\* (C23 tells it apart)
JWTParseOK_AnyMethod(j, tokenString) ==
    /\ tokenString.kind = "jwt"
    /\ Verifies(tokenString.alg, j.symmetricKey, tokenString.claims,
                tokenString.sig)

\* jwt.Parse with the key function of ValidateToken: TRUE when it returns a
\* nil error (three segments, an HMAC method, a signature that verifies)
JWTParseOK(j, tokenString) ==
    /\ tokenString.kind = "jwt"
    /\ tokenString.alg \in HMACMethods
    /\ Verifies(tokenString.alg, j.symmetricKey, tokenString.claims,
                tokenString.sig)

\* the claims the Payload literal of ValidateToken reads with type assertions
JWTClaimNames == {"id", "user_id", "username", "issued_at", "expired_at"}

\* the claims whose JSON value is not of the type that ValidateToken
\* asserts (string for id, user_id and username, float64 for the two times)
Mistyped(claims) ==
    IF "mistyped" \in DOMAIN claims THEN claims.mistyped ELSE {}

\* JWTMaker.ValidateToken at clock reading t
JWTValidateToken(j, tokenString, t) ==
    IF ~JWTParseOK(j, tokenString)
    THEN [payload |-> <<>>, err |-> ErrInvalidToken]
    ELSE LET claims == tokenString.claims IN
         IF \/ ~(JWTClaimNames \subseteq DOMAIN claims)
            \/ Mistyped(claims) \cap JWTClaimNames # {}
            \/ UUIDParse(claims.id) = <<>>
            \/ UUIDParse(claims.user_id) = <<>>
         THEN [payload |-> <<>>, err |-> Panic]
         ELSE LET payload == [ID |-> UUIDParse(claims.id)[1],
                              UserID |-> UUIDParse(claims.user_id)[1],
                              Username |-> claims.username,
                              IssuedAt |-> TimeUnix(claims.issued_at),
                              ExpiredAt |-> TimeUnix(claims.expired_at)]
                  err == Valid(payload, t)
              IN IF err # NoErr
                 THEN [payload |-> <<>>, err |-> err]
                 ELSE [payload |-> <<payload>>, err |-> NoErr]

----------------------------------------------------------------------------
(* PasetoMaker.go *)

\* a faulty NewPasetoMaker that accepts every key of at least KeySize bytes
\* (C8 tells it apart)
NewPasetoMaker_AtLeast(secretKey) ==
    IF Len(secretKey) < KeySize
    THEN [mgr |-> <<>>, err |-> ErrKeySize]
    ELSE [mgr |-> <<[backend |-> TokenTypePaseto, symmetricKey |-> secretKey]>>,
          err |-> NoErr]

\* NewPasetoMaker: a manager, or nil and an error when the key is not
\* KeySize bytes long
NewPasetoMaker(secretKey) ==
    IF Len(secretKey) # KeySize
    THEN [mgr |-> <<>>, err |-> ErrKeySize]
    ELSE [mgr |-> <<[backend |-> TokenTypePaseto, symmetricKey |-> secretKey]>>,
          err |-> NoErr]

\* encoding/json of a Payload: UUIDs as text, times as RFC 3339 with
\* nanoseconds (no truncation)
PayloadJSON(payload) ==
    [id |-> UUIDString(payload.ID),
     user_id |-> UUIDString(payload.UserID),
     username |-> payload.Username,
     issued_at |-> [rfc3339 |-> payload.IssuedAt],
     expired_at |-> [rfc3339 |-> payload.ExpiredAt]]

\* authenticated encryption of plain under key
Seal(key, plain) == [key |-> key, plain |-> plain, bits |-> 0]

PasetoHeader == "v2.local."

\* PasetoMaker.GenerateToken, given the payload NewPayload returned
PasetoGenerateToken(maker, payload) ==
    [token |-> <<[kind |-> "paseto",
                  header |-> PasetoHeader,
                  body |-> Seal(maker.symmetricKey, PayloadJSON(payload))]>>,
     err |-> NoErr]

\* paseto.V2.Decrypt: TRUE when it returns a nil error (the header is
\* v2.local., the body opens under the key, the JSON is a Payload)
PasetoDecryptOK(maker, token) ==
    /\ token.kind = "paseto"
    /\ token.header = PasetoHeader
    /\ token.body = Seal(maker.symmetricKey, token.body.plain)
    /\ UUIDParse(token.body.plain.id) # <<>>
    /\ UUIDParse(token.body.plain.user_id) # <<>>

\* PasetoMaker.ValidateToken at clock reading t
PasetoValidateToken(maker, token, t) ==
    IF ~PasetoDecryptOK(maker, token)
    THEN [payload |-> <<>>, err |-> ErrInvalidToken]
    ELSE LET json == token.body.plain
             payload == [ID |-> UUIDParse(json.id)[1],
                         UserID |-> UUIDParse(json.user_id)[1],
                         Username |-> json.username,
                         IssuedAt |-> json.issued_at.rfc3339,
                         ExpiredAt |-> json.expired_at.rfc3339]
             err == Valid(payload, t)
         IN IF err # NoErr
            THEN [payload |-> <<>>, err |-> err]
            ELSE [payload |-> <<payload>>, err |-> NoErr]

----------------------------------------------------------------------------
(* TokenManager.go *)

\* a faulty NewTokenManager whose default branch is the Paseto backend (C7
\* tells it apart)
NewTokenManager_DefaultPaseto(tokenType, secretKey) ==
    IF tokenType = TokenTypeJWT
    THEN NewJWTMaker(secretKey)
    ELSE NewPasetoMaker(secretKey)

\* NewTokenManager
NewTokenManager(tokenType, secretKey) ==
    CASE tokenType = TokenTypeJWT -> NewJWTMaker(secretKey)
      [] tokenType = TokenTypePaseto -> NewPasetoMaker(secretKey)
      [] OTHER -> [mgr |-> <<>>, err |-> ErrInvalidToken]

\* TokenManager.GenerateToken: dispatch on the dynamic type of the manager.
\* randOK: uuid.NewRandom returned no error
GenerateToken(m, userID, username, duration, randOK, tokenID, t1, t2) ==
    IF ~randOK
    THEN [token |-> <<>>, err |-> ErrRand]
    ELSE LET payload == NewPayload(userID, username, duration, tokenID, t1, t2) IN
         IF m.backend = TokenTypeJWT
         THEN JWTGenerateToken(m, payload)
         ELSE PasetoGenerateToken(m, payload)

\* TokenManager.ValidateToken: dispatch on the dynamic type of the manager
ValidateToken(m, token, t) ==
    IF m.backend = TokenTypeJWT
    THEN JWTValidateToken(m, token, t)
    ELSE PasetoValidateToken(m, token, t)

----------------------------------------------------------------------------
(* Token strings that reach ValidateToken. *)

\* a token string with one character changed: in the claims segment, in the
\* signature or in the header of a JWT; in the body or the header of a
\* Paseto token
Modified(token) ==
    IF token.kind = "jwt"
    THEN {[token EXCEPT !.claims.expired_at = @ + 1],
          [token EXCEPT !.sig.bits = 1],
          [token EXCEPT !.alg = "HS384"]}
    ELSE {[token EXCEPT !.body.bits = 1],
          [token EXCEPT !.header = "v2.publiC."]}

\* the tokens made from a JWT by rewriting its header to another signing
\* method: unsigned (alg "none", empty signature), and an asymmetric method
\* with the signature left in place
Forged(token) ==
    IF token.kind = "jwt"
    THEN {[token EXCEPT !.alg = "none", !.sig = NoneSig(token.claims)],
          [token EXCEPT !.alg = "RS256"]}
    ELSE {}

\* a string that is no token at all
Arbitrary == [kind |-> "not-a-token"]

\* a text that is not a UUID
NotUUID == <<16, 0>>

\* claims without the claim called name
Without(claims, name) == [n \in DOMAIN claims \ {name} |-> claims[n]]

\* claims in which the value of the claim called name has another JSON type
WithMistyped(claims, name) ==
    [n \in DOMAIN claims \cup {"mistyped"} |->
        IF n = "mistyped" THEN {name} ELSE claims[n]]

\* the malformed variants of well-formed claims: a claim is missing, has a
\* wrong type, or an id is not a UUID text
Malformed(claims) ==
    {Without(claims, name) : name \in JWTClaimNames}
      \cup {WithMistyped(claims, name) : name \in JWTClaimNames}
      \cup {[claims EXCEPT !.id = NotUUID], [claims EXCEPT !.user_id = NotUUID]}

\* a token over claims, signed under key with HS256 by a holder of the key
Signed(key, claims) ==
    [kind |-> "jwt", alg |-> "HS256", claims |-> claims,
     sig |-> HMAC(key, "HS256", claims)]

\* the strings a caller may hand to ValidateToken: the token it holds, that
\* token with a character changed, an arbitrary string
TokenStrings ==
    {held[i].token : i \in DOMAIN held}
      \cup UNION {Modified(held[i].token) : i \in DOMAIN held}
      \cup UNION {Forged(held[i].token) : i \in DOMAIN held}
      \cup {Arbitrary}

\* a faulty Valid that pushes the expiry of the payload it checks forward
\* (C25 tells it apart)
PayloadAfterValid_Extended(payload, t) ==
    [payload EXCEPT !.ExpiredAt = IF @ < t + 1 THEN t + 1 ELSE @]

\* the payload after payload.Valid() at t: Valid only reads ExpiredAt
PayloadAfterValid(payload, t) == payload

\* the manager after GenerateToken or ValidateToken: neither assigns
\* symmetricKey (nor the paseto field)
ManagerAfter(m) == m

\* every manager NewTokenManager returns for the live keys
AllManagers ==
    {NewTokenManager(x[1], x[2]).mgr[1] :
        x \in {y \in TokenTypes \X LiveKeys : NewTokenManager(y[1], y[2]).err = NoErr}}

----------------------------------------------------------------------------
(* The constructors as a state machine: each call returns (ret) and its    *)
(* caller registers the manager it got (managers).                         *)

NoCall == [op |-> "none"]

\* the caller keeps a returned manager while it has room for one
Keep(r) ==
    IF r.mgr # <<>> /\ Cardinality(managers \cup {r.mgr[1]}) <= MaxManagers
    THEN managers \cup {r.mgr[1]}
    ELSE managers

CallNewTokenManager ==
    \E tokenType \in TokenTypes, secretKey \in Keys :
        LET r == NewTokenManager(tokenType, secretKey) IN
        /\ managers' = Keep(r)
        /\ ret' = [op |-> "NewTokenManager", tokenType |-> tokenType,
                   secretKey |-> secretKey, mgr |-> r.mgr, err |-> r.err]
        /\ UNCHANGED <<now, held, issued, rng, conn, others>>

CallNewJWTMaker ==
    \E secretKey \in Keys :
        LET r == NewJWTMaker(secretKey) IN
        /\ managers' = Keep(r)
        /\ ret' = [op |-> "NewJWTMaker", secretKey |-> secretKey,
                   mgr |-> r.mgr, err |-> r.err]
        /\ UNCHANGED <<now, held, issued, rng, conn, others>>

CallNewPasetoMaker ==
    \E secretKey \in Keys :
        LET r == NewPasetoMaker(secretKey) IN
        /\ managers' = Keep(r)
        /\ ret' = [op |-> "NewPasetoMaker", secretKey |-> secretKey,
                   mgr |-> r.mgr, err |-> r.err]
        /\ UNCHANGED <<now, held, issued, rng, conn, others>>

----------------------------------------------------------------------------
(* Issuance and validation as a state machine: the clock (now), the token  *)
(* the client holds, which is the latest one issued (held), the log of the *)
(* payload IDs issued (issued), the UUID source (rng) and the return of    *)
(* the call made in the last step (ret).  Managers are immutable values,   *)
(* so a call may be made on any manager a constructor returns.             *)

Tick ==
    /\ now < MaxTime
    /\ now' = now + 1
    /\ ret' = NoCall
    /\ UNCHANGED <<managers, held, issued, rng, conn, others>>

\* GenerateToken.  uuid.NewRandom draws the next value of the random source
\* (or fails); the clock is read twice and may advance by dt between the
\* two readings.
CallGenerateToken ==
    \E m \in AllManagers \cup {held[i].mgr : i \in DOMAIN held}, user \in Users,
       duration \in Durations, randOK \in BOOLEAN, dt \in 0..1 :
        LET userID == user.userID
            username == user.username
            t2 == IF randOK THEN now + dt ELSE now
            r == GenerateToken(m, userID, username, duration, randOK, rng, now, t2)
            payload == NewPayload(userID, username, duration, rng, now, t2)
        IN
        /\ Len(issued) < MaxIssued
        /\ t2 <= MaxTime
        /\ now' = t2
        /\ rng' = IF randOK THEN rng + 1 ELSE rng
        /\ held' = IF r.err = NoErr
                   THEN <<[mgr |-> ManagerAfter(m),
                           userID |-> userID, username |-> username,
                           duration |-> duration, payload |-> payload,
                           token |-> r.token[1]]>>
                   ELSE held
        /\ issued' = IF r.err = NoErr
                     THEN Append(issued, [id |-> payload.ID, draw |-> rng])
                     ELSE issued
        /\ ret' = [op |-> "GenerateToken", mgr |-> m, token |-> r.token,
                   err |-> r.err]
        /\ UNCHANGED <<managers, conn, others>>

\* Payload.Valid, of the payload of the token held; the payload is then as
\* Valid left it
CallValid ==
    \E i \in DOMAIN held :
        /\ ret' = [op |-> "Valid", payload |-> held[i].payload, at |-> now,
                   err |-> Valid(held[i].payload, now)]
        /\ held' = [held EXCEPT ![i].payload = PayloadAfterValid(@, now)]
        /\ UNCHANGED <<now, managers, issued, rng, conn, others>>

\* ValidateToken, of any string, by any manager (the one that issued the
\* token held among them); that manager is then as the call left it
CallValidateToken ==
    \E m \in AllManagers \cup {held[i].mgr : i \in DOMAIN held},
       token \in TokenStrings :
        LET r == ValidateToken(m, token, now) IN
        /\ ret' = [op |-> "ValidateToken", mgr |-> m, token |-> token,
                   at |-> now, payload |-> r.payload, err |-> r.err]
        /\ held' = [i \in DOMAIN held |->
                      IF held[i].mgr = m
                      THEN [held[i] EXCEPT !.mgr = ManagerAfter(m)]
                      ELSE held[i]]
        /\ UNCHANGED <<now, managers, issued, rng, conn, others>>

\* ValidateToken of a JWT manager, of a token that a holder of the
\* manager's key signed over the claims of the token held or over a
\* malformed variant of them
CallValidateSigned ==
    \E i \in DOMAIN held :
        /\ held[i].token.kind = "jwt"
        /\ \E m \in {x \in AllManagers : x.backend = TokenTypeJWT},
              claims \in {held[i].token.claims}
                           \cup Malformed(held[i].token.claims) :
            LET token == Signed(m.symmetricKey, claims)
                r == ValidateToken(m, token, now)
            IN  ret' = [op |-> "ValidateToken", mgr |-> m, token |-> token,
                        at |-> now, payload |-> r.payload, err |-> r.err]
        /\ UNCHANGED <<now, managers, held, issued, rng, conn, others>>

----------------------------------------------------------------------------
(* The connect helpers: ConnectToMongoDB, ConnectPostgresDB,               *)
(* ConnectToPostgresGORM, ConnectToPostgreSQLGormDB.  They share one retry *)
(* loop and differ in two respects: whether an attempt pings the server    *)
(* after connecting, and whether the end of the loop calls log.Fatalf.     *)

Helpers ==
    {"gophermongo.ConnectToMongoDB",        \* ConnectMongoDB.go:39, ping, Fatalf
     "gophermongo.ConnectToMongoDB.v2",     \* ConnectMongoDB.go:122
     "gopherpostgres.ConnectPostgresDB",    \* ping
     "gopherpostgres.ConnectToPostgresGORM",            \* Fatalf
     "mygopherpostgres.ConnectPostgresDB",  \* ping
     "mygopherpostgres.ConnectToPostgreSQLGormDB",
     "mygophermongodb.ConnectToMongoDB"}

\* the helpers whose attempt verifies the connection (Ping, PingContext)
Pings(fn) ==
    fn \in {"gophermongo.ConnectToMongoDB",
            "gopherpostgres.ConnectPostgresDB",
            "mygopherpostgres.ConnectPostgresDB"}

\* the helpers that call log.Fatalf when the loop ends
Fatal(fn) ==
    fn \in {"gophermongo.ConnectToMongoDB",
            "gopherpostgres.ConnectToPostgresGORM"}

ErrMissingDSN == "missing required connection string (DSN)"
ErrCtx == "context timed out while trying to connect"
ErrRetries == "failed to connect after retries"
ErrConnect == "connect failed"
ErrPing == "ping failed"
\* ctx.Err() as the error of an attempt: context deadline exceeded
ErrDeadline == "context deadline exceeded"

\* the helpers whose attempt is given the context (mongo.Connect, Ping,
\* PingContext); gorm.Open is not
UsesCtx(fn) ==
    fn \notin {"gopherpostgres.ConnectToPostgresGORM",
               "mygopherpostgres.ConnectToPostgreSQLGormDB"}

\* a faulty DSN check that lets the empty DSN through (C13 tells it apart)
DSNMissing_Never(dsn) == FALSE

\* the DSN check: if dsn == ""
DSNMissing(dsn) == dsn = ""

\* a faulty loop condition, off by one (C10 tells it apart)
LoopGuard_OffByOne(i, maxRetries) == i <= maxRetries

\* the condition of the retry loop: for i := 0; i < maxRetries; i++
LoopGuard(i, maxRetries) == i < maxRetries

\* the helpers whose Connect call is given the context (mongo.Connect);
\* sql.Open and gorm.Open are not
OpenUsesCtx(fn) ==
    UsesCtx(fn) /\ fn \notin {"gopherpostgres.ConnectPostgresDB",
                              "mygopherpostgres.ConnectPostgresDB"}

\* the errors of the Connect / Open call of an attempt (NoErr: none); once
\* the context is done, a call that is given the context may fail with the
\* context's error
OpenOutcomes(fn, done) ==
    {NoErr, ErrConnect}
      \cup (IF done /\ OpenUsesCtx(fn) THEN {ErrDeadline} ELSE {})

\* the errors of the Ping / PingContext call of an attempt (NoErr: none);
\* once the context is done the ping cannot succeed
PingOutcomes(done) ==
    IF done THEN {ErrPing, ErrDeadline} ELSE {NoErr, ErrPing}

\* a faulty attempt that returns the handle without looking at the ping
\* (C22 tells it apart)
Attempt_PingIgnored(fn, open, ping) ==
    IF open # NoErr
    THEN [err |-> open, pinged |-> FALSE, pingFailed |-> FALSE]
    ELSE [err |-> NoErr, pinged |-> Pings(fn) /\ ping = NoErr,
          pingFailed |-> Pings(fn) /\ ping # NoErr]

\* one attempt of fn, open and ping being the errors of its Connect / Open
\* call and of its ping: err as the attempt leaves it (NoErr: the handle is
\* returned), whether a ping succeeded, whether a ping failed
Attempt(fn, open, ping) ==
    IF open # NoErr
    THEN [err |-> open, pinged |-> FALSE, pingFailed |-> FALSE]
    ELSE IF Pings(fn)
    THEN [err |-> ping, pinged |-> ping = NoErr, pingFailed |-> ping # NoErr]
    ELSE [err |-> NoErr, pinged |-> FALSE, pingFailed |-> FALSE]

\* the outcomes of one attempt of fn: the connect (Open) call fails, the
\* ping fails, or the attempt succeeds.
Outcomes(fn, done) ==
    {Attempt(fn, open, ping) :
        open \in OpenOutcomes(fn, done), ping \in PingOutcomes(done)}

\* the call: context.WithTimeout, then the DSN check.  done: the context is
\* already done when the loop is entered (a timeout <= 0, a parent context
\* that is cancelled)
ConnectCall ==
    /\ conn.pc = "idle"
    /\ \E fn \in Helpers, dsn \in {"", "dsn"}, maxRetries \in -1..MaxRetries,
          done \in BOOLEAN :
          conn' = [pc |-> IF DSNMissing(dsn) THEN "returned" ELSE "loop",
                   fn |-> fn, dsn |-> dsn, maxRetries |-> maxRetries,
                   i |-> 0, done |-> done, observedDone |-> FALSE,
                   attempts |-> 0, sleeps |-> 0,
                   err |-> NoErr,
                   handle |-> "nil", pinged |-> FALSE, pingFails |-> 0,
                   result |-> IF DSNMissing(dsn) THEN ErrMissingDSN ELSE "running"]
    /\ UNCHANGED <<now, managers, held, issued, rng, ret, others>>

\* the deadline of the context passes (or its parent is cancelled)
ConnectCtxDone ==
    /\ conn.pc \in {"loop", "attempt", "sleep"}
    /\ ~conn.done
    /\ conn' = [conn EXCEPT !.done = TRUE]
    /\ UNCHANGED <<now, managers, held, issued, rng, ret, others>>

\* the head of an iteration: the loop condition, then the select on
\* ctx.Done() with its default case
ConnectLoop ==
    /\ conn.pc = "loop"
    /\ conn' =
         IF LoopGuard(conn.i, conn.maxRetries)
         THEN IF conn.done
              THEN [conn EXCEPT !.pc = "returned", !.observedDone = TRUE,
                                !.handle = "nil", !.result = ErrCtx]
              ELSE [conn EXCEPT !.pc = "attempt"]
         ELSE IF Fatal(conn.fn)
              THEN [conn EXCEPT !.pc = "exited", !.handle = "nil",
                                !.result = "os.Exit(1)"]
              ELSE [conn EXCEPT !.pc = "returned", !.handle = "nil",
                                !.result = ErrRetries]
    /\ UNCHANGED <<now, managers, held, issued, rng, ret, others>>

\* one attempt: Connect / Open, then the ping where the helper has one
ConnectAttempt ==
    /\ conn.pc = "attempt"
    /\ \E outcome \in Outcomes(conn.fn, conn.done) :
          conn' =
            IF outcome.err = NoErr
            THEN [conn EXCEPT !.attempts = @ + 1, !.err = NoErr,
                              !.pc = "returned", !.handle = "handle",
                              !.pinged = outcome.pinged,
                              !.pingFails = @ + (IF outcome.pingFailed
                                                 THEN 1 ELSE 0),
                              !.result = NoErr]
            ELSE [conn EXCEPT !.attempts = @ + 1, !.err = outcome.err,
                              !.pingFails = @ + (IF outcome.pingFailed
                                                 THEN 1 ELSE 0),
                              !.pc = "sleep"]
    /\ UNCHANGED <<now, managers, held, issued, rng, ret, others>>

\* time.Sleep(retryDelay), then i++
ConnectSleep ==
    /\ conn.pc = "sleep"
    /\ conn' = [conn EXCEPT !.sleeps = @ + 1, !.i = @ + 1, !.pc = "loop"]
    /\ UNCHANGED <<now, managers, held, issued, rng, ret, others>>

----------------------------------------------------------------------------
(* Specifications. *)

----------------------------------------------------------------------------
(* SetUpLoggerFile of gopherlogger, mygopherlogger and mygopher.           *)
(*                                                                         *)
(* lg holds the standard logger's output (the set of writers a message is  *)
(* written to), what each writer has received, the logs directory and the  *)
(* log files that exist, and the result of the last call.                  *)

Loggers == {"gopherlogger.SetUpLoggerFile", "mygopherlogger.SetUpLoggerFile",
            "mygopher.SetUpLoggerFile"}

\* mygopher.SetUpLoggerFile delegates to mygopherlogger.SetUpLoggerFile
LoggerImpl(fn) ==
    IF fn = "mygopher.SetUpLoggerFile" THEN "mygopherlogger.SetUpLoggerFile"
    ELSE fn

LogFileNames == {"app.log", "fail.log"}

\* a writer is a file: its directory, and its name as timestamp and suffix
Stdout == [dir |-> "/dev", ts |-> 0, name |-> "stdout"]
\* the standard logger's output before any SetOutput
Stderr == [dir |-> "/dev", ts |-> 0, name |-> "stderr"]

ErrMkdir == "failed to create logs directory"
ErrOpen == "failed to open log file"

\* logs/<timestamp>_<logFileName>
LogFilePath(ts, logFileName) == [dir |-> "logs", ts |-> ts, name |-> logFileName]

\* a faulty multi-writer that leaves stdout out (C15 tells it apart)
Writers_FileOnly(logFile) ==
    IF logFile = <<>> THEN {Stdout} ELSE {logFile[1]}

\* io.MultiWriter(os.Stdout, logFile), or os.Stdout alone without a file
Writers(logFile) ==
    IF logFile = <<>> THEN {Stdout} ELSE {Stdout, logFile[1]}

\* the messages: the two announcements of SetUpLoggerFile, which name the
\* log file, and the application's messages, numbered
MsgFallback(path) ==
    [text |-> "Error opening log file, stdout only", id |-> 0, path |-> path]
MsgInitialized(path) ==
    [text |-> "Logging initialized", id |-> 0, path |-> path]
MsgApp(id) == [text |-> "message", id |-> id, path |-> Stdout]

\* log.Printf: the message is written to every writer of the output
LogWrite(content, out, msg) == content \cup {<<w, msg>> : w \in out}

NoSetup ==
    [fn |-> "none", name |-> "", ts |-> 0, openFailed |-> FALSE,
     file |-> <<>>, err |-> NoErr]

\* SetUpLoggerFile(logFileName) called by fn in logger state l; mkdirOK and
\* openOK are the outcomes of os.MkdirAll and os.OpenFile
SetUpLoggerFile(fn, l, logFileName, mkdirOK, openOK) ==
    LET path == LogFilePath(l.clock, logFileName)
        call == [fn |-> fn, name |-> logFileName, ts |-> l.clock,
                 openFailed |-> FALSE, file |-> <<>>, err |-> NoErr]
        both == Writers(<<path>>)
    IN  IF ~mkdirOK
        THEN [l EXCEPT !.ret = [call EXCEPT !.err = ErrMkdir],
                       !.since = {}, !.setups = @ + 1]
        ELSE IF ~openOK
        THEN [l EXCEPT
                !.dir = TRUE,
                !.content = LogWrite(l.content, l.out, MsgFallback(path)),
                !.out = Writers(<<>>),
                !.ret = [call EXCEPT
                           !.openFailed = TRUE,
                           !.err = IF LoggerImpl(fn) = "gopherlogger.SetUpLoggerFile"
                                   THEN ErrOpen ELSE NoErr],
                !.since = {}, !.setups = @ + 1]
        ELSE [l EXCEPT
                !.dir = TRUE,
                !.files = @ \cup {path},
                !.content =
                    IF LoggerImpl(fn) = "gopherlogger.SetUpLoggerFile"
                    THEN LogWrite(l.content, both, MsgInitialized(path))
                    ELSE LogWrite(l.content, l.out, MsgInitialized(path)),
                !.out = both,
                !.ret = [call EXCEPT !.file = <<path>>],
                !.since = {}, !.setups = @ + 1]

\* a caller sets the logger up; os.MkdirAll succeeds on an existing directory
CallSetUpLoggerFile ==
    /\ lg.setups < MaxSetups
    /\ \E fn \in Loggers, logFileName \in LogFileNames,
          mkdirOK \in (IF lg.dir THEN {TRUE} ELSE BOOLEAN), openOK \in BOOLEAN :
        lg' = SetUpLoggerFile(fn, lg, logFileName, mkdirOK, openOK)
    /\ UNCHANGED notLogger

\* the application logs its next message through the standard logger
LogPrintln ==
    /\ lg.n < MaxMsgs
    /\ lg' = [lg EXCEPT !.n = @ + 1,
                        !.content = LogWrite(lg.content, lg.out, MsgApp(lg.n + 1)),
                        !.since = @ \cup {lg.n + 1}]
    /\ UNCHANGED notLogger

\* a second passes
LoggerTick ==
    /\ lg.clock < MaxLogClock
    /\ lg' = [lg EXCEPT !.clock = @ + 1]
    /\ UNCHANGED notLogger

----------------------------------------------------------------------------
(* The email services of gophersmtp behind GopherSmtpInterface:            *)
(* EmailService (synchronous) and EmailRoutineService (goroutines).        *)
(*                                                                         *)
(* mail.calls is the sequence of the calls made so far.  A call records    *)
(* its arguments, the error it returned, the goroutines it started (outer: *)
(* the sleeping goroutine of ScheduleEmail; inner: the sending goroutine   *)
(* of EmailRoutineService) and what was handed to smtp.SendMail for it.    *)

Services == {"EmailService", "EmailRoutineService"}

ErrSMTP == "smtp.SendMail failed"
ErrPast == "scheduled time is in the past"

\* the arguments the callers use
To == <<"to@x">>
CCLists == {<<>>, <<"cc@x">>}
BCCLists == {<<>>, <<"bcc@x">>}
Subject == "subject"
Body == "body"

\* mime of SendEmail: text/html if isHtml, text/plain otherwise
Mime(isHtml) == IF isHtml THEN "text/html" ELSE "text/plain"

\* the message of SendEmail, as its header lines and the body
PlainMessage(subject, body, isHtml) ==
    << <<"Subject", <<subject>> >>,
       <<"MIME-version", <<"1.0;">> >>,
       <<"Content-Type", <<Mime(isHtml)>> >>,
       <<"", <<body>> >> >>

\* the message of SendEmailWithCCAndBCC: strings.Join(cc, ",") in the CC
\* header and strings.Join(bcc, ",") in the BCC header
CCMessage(cc, bcc, subject, body, isHtml) ==
    << <<"Subject", <<subject>> >>,
       <<"CC", cc>>,
       <<"BCC", bcc>>,
       <<"MIME-version", <<"1.0;">> >>,
       <<"Content-Type", <<Mime(isHtml)>> >>,
       <<"", <<body>> >> >>

\* allRecipients := append(append(to, cc...), bcc...)
AllRecipients(to, cc, bcc) == (to \o cc) \o bcc

\* a faulty delay that is measured backwards (C19 tells it apart)
Until_Backwards(sendAt, clock) == clock - sendAt

\* time.Until(sendAt)
Until(sendAt, clock) == sendAt - clock

\* a call as it is entered: nothing returned, started or sent yet
NewCall(svc, method, clock) ==
    [svc |-> svc, method |-> method, at |-> clock,
     cc |-> <<>>, bcc |-> <<>>, sendAt |-> 0, delay |-> 0,
     ret |-> NoErr, outer |-> "none", inner |-> "none",
     sent |-> 0, sentAt |-> 0, ok |-> TRUE, rcpt |-> <<>>, msg |-> <<>>,
     results |-> <<>>]

\* smtp.SendMail(addr, auth, from, rcpt, msg), with outcome ok, at clock
SendMail(c, rcpt, msg, ok, clock) ==
    [c EXCEPT !.sent = @ + 1, !.sentAt = clock, !.ok = ok,
              !.rcpt = rcpt, !.msg = msg]

SMTPErr(ok) == IF ok THEN NoErr ELSE ErrSMTP

\* the body of a send method: EmailService sends and returns SendMail's
\* error; EmailRoutineService starts the sending goroutine and returns nil
Send(c, rcpt, msg, ok, clock) ==
    IF c.svc = "EmailService"
    THEN [SendMail(c, rcpt, msg, ok, clock) EXCEPT !.ret = SMTPErr(ok)]
    ELSE [c EXCEPT !.rcpt = rcpt, !.msg = msg, !.inner = "sending",
                   !.ret = NoErr]

\* SendEmail(to, subject, body, isHtml)
CallSendEmail ==
    /\ Len(mail.calls) < MaxCalls
    /\ \E svc \in Services, ok \in BOOLEAN :
        mail' = [mail EXCEPT !.calls =
                   Append(@, Send(NewCall(svc, "SendEmail", mail.clock), To,
                                  PlainMessage(Subject, Body, FALSE), ok,
                                  mail.clock))]
    /\ UNCHANGED notMail

\* SendEmailWithCCAndBCC(to, cc, bcc, subject, body, isHtml)
CallSendEmailWithCCAndBCC ==
    /\ Len(mail.calls) < MaxCalls
    /\ \E svc \in Services, cc \in CCLists, bcc \in BCCLists, ok \in BOOLEAN :
        LET c == [NewCall(svc, "SendEmailWithCCAndBCC", mail.clock)
                    EXCEPT !.cc = cc, !.bcc = bcc]
        IN  mail' = [mail EXCEPT !.calls =
                       Append(@, Send(c, AllRecipients(To, cc, bcc),
                                      CCMessage(cc, bcc, Subject, Body, FALSE),
                                      ok, mail.clock))]
    /\ UNCHANGED notMail

\* ScheduleEmail(to, subject, body, sendAt, isHtml): an error if the delay
\* is not positive, a goroutine that sleeps and sends otherwise
CallScheduleEmail ==
    /\ Len(mail.calls) < MaxCalls
    /\ \E svc \in Services, sendAt \in 0..MaxMailClock :
        LET delay == Until(sendAt, mail.clock)
            c == [NewCall(svc, "ScheduleEmail", mail.clock)
                    EXCEPT !.sendAt = sendAt, !.delay = delay]
        IN  mail' = [mail EXCEPT !.calls =
                       Append(@, IF delay <= 0
                                 THEN [c EXCEPT !.ret = ErrPast]
                                 ELSE [c EXCEPT !.ret = NoErr,
                                                !.outer = "sleeping"])]
    /\ UNCHANGED notMail

\* the goroutine of ScheduleEmail has slept and calls e.SendEmail.  It
\* begins time.Sleep(delay) at some time from the call on and sleeps for at
\* least delay, so it can wake at any time from at + delay on.  The
\* EmailService goroutine drops its error and ends; the EmailRoutineService
\* goroutine goes on to publish the nil that SendEmail returned
GoWake ==
    /\ \E i \in DOMAIN mail.calls, ok \in BOOLEAN :
        LET c == mail.calls[i]
            d == Send(c, To, PlainMessage(Subject, Body, FALSE), ok, mail.clock)
        IN  /\ c.outer = "sleeping"
            /\ mail.clock >= c.at + c.delay
            /\ mail' = [mail EXCEPT !.calls[i] =
                          [d EXCEPT !.ret = c.ret,
                                    !.outer = IF c.svc = "EmailService"
                                              THEN "done" ELSE "publishing"]]
    /\ UNCHANGED notMail

\* the sending goroutine of EmailRoutineService runs smtp.SendMail
GoSendMail ==
    /\ \E i \in DOMAIN mail.calls, ok \in BOOLEAN :
        LET c == mail.calls[i]
        IN  /\ c.inner = "sending"
            /\ mail' = [mail EXCEPT !.calls[i] =
                          [SendMail(c, c.rcpt, c.msg, ok, mail.clock)
                             EXCEPT !.inner = "publishing"]]
    /\ UNCHANGED notMail

\* a goroutine's EmailResult is received from EmailResultsChan: the sending
\* goroutine publishes SendMail's error, the scheduling goroutine the nil
\* returned by SendEmail
GoPublish ==
    /\ \E i \in DOMAIN mail.calls :
        LET c == mail.calls[i]
        IN  \/ /\ c.inner = "publishing"
               /\ mail' = [mail EXCEPT
                             !.calls[i].results = Append(@, SMTPErr(c.ok)),
                             !.calls[i].inner = "done"]
            \/ /\ c.outer = "publishing"
               /\ mail' = [mail EXCEPT
                             !.calls[i].results = Append(@, NoErr),
                             !.calls[i].outer = "done"]
    /\ UNCHANGED notMail

\* time passes
MailTick ==
    /\ mail.clock < MaxMailClock
    /\ mail' = [mail EXCEPT !.clock = @ + 1]
    /\ UNCHANGED notMail

----------------------------------------------------------------------------
(* The servers of gophergin and gopherfiber: NewGinServer / NewFiberServer, *)
(* Start and GracefulShutdown.                                              *)
(*                                                                          *)
(* srv holds the process (running, exited through log.Fatalf, or killed by  *)
(* an interrupt nobody is notified of), what Start returned, the listening  *)
(* goroutine, the position of GracefulShutdown, the quit channel, and the   *)
(* requests in flight.                                                      *)

ServerKinds == {"GinServer", "FiberServer"}

\* context.WithTimeout(context.Background(), 5*time.Second), in seconds
ShutdownTimeout == 5

ErrPortInUse == "listen: address already in use"
ErrTLSFiles == "tls: failed to load certificate or key"

NoServer ==
    [kind |-> "none", useTLS |-> FALSE, proc |-> "none", startRet |-> "none",
     listen |-> "none", listenErr |-> NoErr, gs |-> "idle",
     notified |-> FALSE, quit |-> 0, interrupts |-> 0, shutdowns |-> 0,
     inflight |-> 0, elapsed |-> 0]

\* a faulty receive that does not wait for the signal (C18 tells it apart)
QuitReady_NoWait(quit) == TRUE

\* <-quit can proceed: the channel holds a signal
QuitReady(quit) == quit > 0

\* the errors with which the listening call of Start's goroutine can fail
\* (the TLS variants read the certificate and key while starting)
ListenErrors(useTLS) ==
    {ErrPortInUse} \cup (IF useTLS THEN {ErrTLSFiles} ELSE {})

\* Shutdown is over: no request is in flight, or (GinServer) the context of
\* 5 seconds is done
ShutdownOver(s) ==
    \/ s.inflight = 0
    \/ s.kind = "GinServer" /\ s.elapsed >= ShutdownTimeout

\* NewGinServer / NewFiberServer: log.Fatalf if SetUpTLS fails
NewServer ==
    /\ srv.proc = "none"
    /\ \E kind \in ServerKinds, useTLS \in BOOLEAN, certOK \in BOOLEAN :
        srv' = [srv EXCEPT !.kind = kind, !.useTLS = useTLS,
                           !.proc = IF useTLS /\ ~certOK
                                    THEN "exited" ELSE "running"]
    /\ UNCHANGED notServer

\* Start: starts the listening goroutine and returns nil
CallStart ==
    /\ srv.proc = "running"
    /\ srv.startRet = "none"
    /\ srv.gs = "idle"
    /\ srv' = [srv EXCEPT !.startRet = NoErr, !.listen = "starting"]
    /\ UNCHANGED notServer

\* the goroutine of Start runs ListenAndServe(TLS) / Listen(TLS): it
\* listens, or fails and logs the error; after Shutdown it does not listen
GoListen ==
    /\ srv.proc = "running"
    /\ srv.listen = "starting"
    /\ \E outcome \in {NoErr} \cup ListenErrors(srv.useTLS) :
        srv' = IF srv.shutdowns > 0
               THEN [srv EXCEPT !.listen = "closed"]
               ELSE IF outcome = NoErr
               THEN [srv EXCEPT !.listen = "listening"]
               ELSE [srv EXCEPT !.listen = "failed", !.listenErr = outcome]
    /\ UNCHANGED notServer

\* GracefulShutdown is entered: signal.Notify(quit, os.Interrupt), then the
\* caller blocks in <-quit
CallGracefulShutdown ==
    /\ srv.proc = "running"
    /\ srv.gs = "idle"
    /\ srv' = [srv EXCEPT !.gs = "waiting", !.notified = TRUE]
    /\ UNCHANGED notServer

\* an interrupt signal reaches the process: it goes to the quit channel
\* (of capacity 1) once signal.Notify was called, and ends the process
\* before that
Interrupt ==
    /\ srv.proc = "running"
    /\ srv.interrupts < MaxInterrupts
    /\ srv' = IF srv.notified
              THEN [srv EXCEPT !.interrupts = @ + 1, !.quit = 1]
              ELSE [srv EXCEPT !.interrupts = @ + 1, !.proc = "killed"]
    /\ UNCHANGED notServer

\* <-quit returns and Shutdown is called: the listener is closed
GsShutdown ==
    /\ srv.proc = "running"
    /\ srv.gs = "waiting"
    /\ QuitReady(srv.quit)
    /\ srv' = [srv EXCEPT !.quit = IF @ > 0 THEN @ - 1 ELSE 0,
                          !.gs = "shutdown",
                          !.shutdowns = @ + 1,
                          !.listen = IF @ = "listening" THEN "closed" ELSE @]
    /\ UNCHANGED notServer

\* Shutdown returns, and GracefulShutdown with it
GsReturn ==
    /\ srv.proc = "running"
    /\ srv.gs = "shutdown"
    /\ ShutdownOver(srv)
    /\ srv' = [srv EXCEPT !.gs = "returned"]
    /\ UNCHANGED notServer

\* a second of the shutdown passes
ShutdownTick ==
    /\ srv.proc = "running"
    /\ srv.gs = "shutdown"
    /\ srv.elapsed < ShutdownTimeout
    /\ srv' = [srv EXCEPT !.elapsed = @ + 1]
    /\ UNCHANGED notServer

\* a request arrives at the listening server
RequestArrives ==
    /\ srv.proc = "running"
    /\ srv.listen = "listening"
    /\ srv.inflight < MaxInflight
    /\ srv' = [srv EXCEPT !.inflight = @ + 1]
    /\ UNCHANGED notServer

\* a request in flight is answered
RequestDone ==
    /\ srv.proc = "running"
    /\ srv.inflight > 0
    /\ srv' = [srv EXCEPT !.inflight = @ - 1]
    /\ UNCHANGED notServer

----------------------------------------------------------------------------
(* CheckAndEnableUUIDExtension of gopherpostgres.                          *)
(*                                                                         *)
(* pg.enabled says whether pg_extension has the row of uuid-ossp; pg.calls *)
(* is the sequence of the calls made so far, each with the outcome of its  *)
(* database operations, the number of CREATE EXTENSION statements it       *)
(* executed, the error it returned and the catalogue as it left it.        *)

ErrGormDB == "failed to get database connection from GORM"
ErrCheckExt == "failed to check for uuid-ossp extension"
ErrCreateExt == "failed to create uuid-ossp extension"

\* what row.Scan can give: the row, sql.ErrNoRows, or another error
QueryResults(enabled) == {IF enabled THEN "row" ELSE "sql.ErrNoRows", "error"}

\* a faulty test that takes every failed query for a missing row
IsErrNoRows_AnyError(query) == query # "row"

\* err == sql.ErrNoRows
IsErrNoRows(query) == query = "sql.ErrNoRows"

\* CheckAndEnableUUIDExtension(db) on a catalogue with uuid-ossp enabled or
\* not; dbOK, query and execOK are the outcomes of db.DB(), of the catalogue
\* query and of CREATE EXTENSION
CheckAndEnableUUIDExtension(enabled, dbOK, query, execOK) ==
    LET call == [dbOK |-> dbOK, query |-> "none", execs |-> 0,
                 ret |-> NoErr, enabled |-> enabled]
    IN  IF ~dbOK
        THEN [call EXCEPT !.ret = ErrGormDB]
        ELSE IF IsErrNoRows(query)
        THEN IF execOK
             THEN [call EXCEPT !.query = query, !.execs = 1, !.enabled = TRUE]
             ELSE [call EXCEPT !.query = query, !.execs = 1,
                               !.ret = ErrCreateExt]
        ELSE IF query # "row"
        THEN [call EXCEPT !.query = query, !.ret = ErrCheckExt]
        ELSE [call EXCEPT !.query = query]

\* a caller checks and enables the extension
CallCheckAndEnableUUIDExtension ==
    /\ Len(pg.calls) < MaxExtCalls
    /\ \E dbOK \in BOOLEAN, query \in QueryResults(pg.enabled),
          execOK \in BOOLEAN :
        LET call == CheckAndEnableUUIDExtension(pg.enabled, dbOK, query, execOK)
        IN  pg' = [enabled |-> call.enabled, calls |-> Append(pg.calls, call)]
    /\ UNCHANGED notPostgres

----------------------------------------------------------------------------
(* Synchronous bulk sending: EmailService.SendBulkEmail and the legacy     *)
(* EmailService.SendBatchEmail.  bulk is the last bulk call: its           *)
(* arguments, what it handed to smtp.SendMail, in order, and the error it  *)
(* returned.                                                               *)

NoBulk == [method |-> "none", to |-> <<>>, isHtml |-> FALSE, sends |-> <<>>,
           ret |-> NoErr]

\* the addresses of the recipient lists
Addresses == {"a@x", "b@x"}

\* the recipient lists handed to a bulk send, a repeated address included
RecipientLists == UNION {[1..n -> Addresses] : n \in 0..MaxRecipients}

\* what smtp.SendMail returns: nil or one of its errors
SendOutcomes == {NoErr, ErrSMTP, "smtp: 550 mailbox unavailable"}

\* the message of the legacy sendMail helper, as its header lines and the
\* body
LegacyMessage(subject, body, contentType) ==
    << <<"Subject", <<subject>> >>,
       <<"MIME-Version", <<"1.0">> >>,
       <<"Content-Type", <<contentType>> >>,
       <<"", <<body>> >> >>

\* the message a bulk method sends to each recipient: SendEmail's for
\* SendBulkEmail, SendTextEmail's for SendBatchEmail
BulkMessage(method, isHtml) ==
    IF method = "SendBulkEmail"
    THEN PlainMessage(Subject, Body, isHtml)
    ELSE LegacyMessage(Subject, Body, "text/plain")

\* a faulty loop that goes on after a failed send and returns the last
\* error (C26 tells it apart)
RECURSIVE SendEach_KeepGoing(_, _, _, _, _)
SendEach_KeepGoing(to, outcomes, msg, sends, err) ==
    IF to = <<>>
    THEN [sends |-> sends, ret |-> err]
    ELSE SendEach_KeepGoing(Tail(to), Tail(outcomes), msg,
                            Append(sends, [rcpt |-> <<Head(to)>>,
                                           msg |-> msg,
                                           err |-> Head(outcomes)]),
                            IF Head(outcomes) # NoErr THEN Head(outcomes)
                            ELSE err)

\* for _, recipient := range to: one send to []string{recipient}, return
\* at its error; nil after the last.  outcomes are what smtp.SendMail
\* returns to the sends, sends what it was handed so far, err is unused
RECURSIVE SendEach(_, _, _, _, _)
SendEach(to, outcomes, msg, sends, err) ==
    IF to = <<>>
    THEN [sends |-> sends, ret |-> NoErr]
    ELSE LET sent == Append(sends, [rcpt |-> <<Head(to)>>, msg |-> msg,
                                    err |-> Head(outcomes)])
         IN  IF Head(outcomes) # NoErr
             THEN [sends |-> sent, ret |-> Head(outcomes)]
             ELSE SendEach(Tail(to), Tail(outcomes), msg, sent, err)

\* the bulk call of a method
BulkCall(method, to, isHtml, outcomes) ==
    LET r == SendEach(to, outcomes, BulkMessage(method, isHtml), <<>>, NoErr)
    IN  [method |-> method, to |-> to, isHtml |-> isHtml,
         sends |-> r.sends, ret |-> r.ret]

\* EmailService.SendBulkEmail(to, subject, body, isHtml)
CallSendBulkEmail ==
    /\ \E to \in RecipientLists, isHtml \in BOOLEAN :
         \E outcomes \in [1..Len(to) -> SendOutcomes] :
            bulk' = BulkCall("SendBulkEmail", to, isHtml, outcomes)
    /\ UNCHANGED notBulk

\* EmailService.SendBatchEmail(to, subject, body) of GopherSmtp.go
CallSendBatchEmail ==
    /\ \E to \in RecipientLists :
         \E outcomes \in [1..Len(to) -> SendOutcomes] :
            bulk' = BulkCall("SendBatchEmail", to, FALSE, outcomes)
    /\ UNCHANGED notBulk

----------------------------------------------------------------------------
(* EmailRoutineService and the package-level, unbuffered EmailResultsChan. *)
(* ch.cons are the goroutines that range over the channel: one             *)
(* processEmailResults per service instance, and the consumer the caller   *)
(* may start itself.  ch.gs are the goroutines the send methods start:     *)
(* "inner" is the goroutine of SendEmail, which hands the message to       *)
(* smtp.SendMail and sends the result on the channel; "schedule" and       *)
(* "bulk" are the goroutines of ScheduleEmail and SendBulkEmail, which     *)
(* call SendEmail (child is the goroutine that call started) and send a    *)
(* result of their own.  recv is the set of consumers a result reached.    *)

NoChan == [svcs |-> 0, user |-> FALSE, cons |-> <<>>, gs |-> <<>>,
           ret |-> NoErr]

\* a processEmailResults that returns after its first result (C28 tells it
\* apart)
AfterLog_Once == "returned"

\* for result := range EmailResultsChan: after logging, receive again
AfterLog == "recv"

Consumer(who) == [who |-> who, pc |-> "recv"]

\* the goroutine of SendEmail, before smtp.SendMail
InnerGoroutine(to) ==
    [kind |-> "inner", pc |-> "smtp", to |-> to, child |-> 0,
     outcome |-> NoErr, err |-> NoErr, recv |-> {}]

\* the goroutine of ScheduleEmail (pc sleep) or of SendBulkEmail (pc call),
\* before its call of SendEmail
OuterGoroutine(kind, to) ==
    [kind |-> kind, pc |-> IF kind = "schedule" THEN "sleep" ELSE "call",
     to |-> to, child |-> 0, outcome |-> NoErr, err |-> NoErr, recv |-> {}]

\* goroutines started and still to be started by those running
Room(gs) ==
    Len(gs) + Cardinality({i \in DOMAIN gs :
                             gs[i].kind # "inner" /\ gs[i].child = 0})

\* NewEmailRoutineService: go service.processEmailResults()
CallNewEmailRoutineService ==
    /\ ch.svcs < MaxServices
    /\ ch' = [ch EXCEPT !.svcs = @ + 1,
                        !.cons = Append(@, Consumer("processEmailResults"))]
    /\ UNCHANGED notChan

\* the caller's own goroutine ranging over gophersmtp.EmailResultsChan
StartUserConsumer ==
    /\ ch.svcs >= 1
    /\ ~ch.user
    /\ ch' = [ch EXCEPT !.user = TRUE, !.cons = Append(@, Consumer("user"))]
    /\ UNCHANGED notChan

\* EmailRoutineService.SendEmail: start the sending goroutine, return nil
RoutineSendEmail ==
    /\ ch.svcs >= 1
    /\ Room(ch.gs) + 1 <= MaxGoroutines
    /\ ch' = [ch EXCEPT !.gs = Append(@, InnerGoroutine(To)), !.ret = NoErr]
    /\ UNCHANGED notChan

\* EmailRoutineService.ScheduleEmail: an error if the delay is not positive,
\* a goroutine that sleeps, calls SendEmail and sends a result otherwise
RoutineScheduleEmail ==
    /\ ch.svcs >= 1
    /\ Room(ch.gs) + 2 <= MaxGoroutines
    /\ \E delay \in 0..1 :
         ch' = IF delay <= 0
               THEN [ch EXCEPT !.ret = ErrPast]
               ELSE [ch EXCEPT !.gs = Append(@, OuterGoroutine("schedule",
                                                                 To)),
                               !.ret = NoErr]
    /\ UNCHANGED notChan

\* EmailRoutineService.SendBulkEmail: one goroutine per recipient, each
\* calls SendEmail and sends a result; returns nil
RoutineSendBulkEmail ==
    /\ ch.svcs >= 1
    /\ \E to \in RecipientLists :
         /\ Room(ch.gs) + 2 * Len(to) <= MaxGoroutines
         /\ ch' = [ch EXCEPT
                     !.gs = @ \o [j \in 1..Len(to) |->
                                    OuterGoroutine("bulk", <<to[j]>>)],
                     !.ret = NoErr]
    /\ UNCHANGED notChan

\* a goroutine of ScheduleEmail (its sleep over) or of SendBulkEmail calls
\* e.SendEmail, which starts the sending goroutine and returns nil, and goes
\* on to send EmailResult{Error: err} with that nil
GoCallSendEmail ==
    /\ \E i \in DOMAIN ch.gs :
         /\ ch.gs[i].pc \in {"sleep", "call"}
         /\ ch' = [ch EXCEPT
                     !.gs = Append([@ EXCEPT ![i].pc = "sending",
                                             ![i].child = Len(ch.gs) + 1,
                                             ![i].err = NoErr],
                                   InnerGoroutine(ch.gs[i].to))]
    /\ UNCHANGED notChan

\* the sending goroutine: err := smtp.SendMail(...), then send
\* EmailResult{Error: err}
GoSmtpSendMail ==
    /\ \E i \in DOMAIN ch.gs, outcome \in SendOutcomes :
         /\ ch.gs[i].pc = "smtp"
         /\ ch' = [ch EXCEPT !.gs[i].pc = "sending",
                             !.gs[i].outcome = outcome,
                             !.gs[i].err = outcome]
    /\ UNCHANGED notChan

\* EmailResultsChan <- result meets one receiving consumer
ChanRendezvous ==
    /\ \E i \in DOMAIN ch.gs, c \in DOMAIN ch.cons :
         /\ ch.gs[i].pc = "sending"
         /\ ch.cons[c].pc = "recv"
         /\ ch' = [ch EXCEPT !.gs[i].pc = "done",
                             !.gs[i].recv = @ \cup {c},
                             !.cons[c].pc = "log"]
    /\ UNCHANGED notChan

\* the consumer logs the result and ranges on
ConsumerLog ==
    /\ \E c \in DOMAIN ch.cons :
         /\ ch.cons[c].pc = "log"
         /\ ch' = [ch EXCEPT !.cons[c].pc = AfterLog]
    /\ UNCHANGED notChan

Init ==
    /\ now = 0
    /\ managers = {}
    /\ held = <<>>
    /\ issued = <<>>
    /\ rng = 0
    /\ ret = NoCall
    /\ conn = [pc |-> "idle"]
    /\ lg = [clock |-> 0, n |-> 0, setups |-> 0, dir |-> FALSE, files |-> {},
             out |-> {Stderr}, content |-> {}, since |-> {}, ret |-> NoSetup]
    /\ mail = [clock |-> 0, calls |-> <<>>]
    /\ srv = NoServer
    /\ pg \in {[enabled |-> e, calls |-> <<>>] : e \in BOOLEAN}
    /\ bulk = NoBulk
    /\ ch = NoChan

\* the constructors
NextFactory ==
    \/ CallNewTokenManager
    \/ CallNewJWTMaker
    \/ CallNewPasetoMaker

SpecFactory == Init /\ [][NextFactory]_vars

\* issuance and validation
Next ==
    \/ Tick
    \/ CallGenerateToken
    \/ CallValid
    \/ CallValidateToken

Spec == Init /\ [][Next]_vars

\* issuance, and validation of tokens signed by a holder of the key
NextSigned ==
    \/ Tick
    \/ CallGenerateToken
    \/ CallValidateSigned

SpecSigned == Init /\ [][NextSigned]_vars

\* one call of a connect helper
NextConnect ==
    \/ ConnectCall
    \/ ConnectCtxDone
    \/ ConnectLoop
    \/ ConnectAttempt
    \/ ConnectSleep

SpecConnect == Init /\ [][NextConnect]_vars

\* the logger set-up and the application's logging
NextLogger ==
    \/ CallSetUpLoggerFile
    \/ LogPrintln
    \/ LoggerTick

SpecLogger == Init /\ [][NextLogger]_vars

\* the callers of the email services, their goroutines and the clock
NextMail ==
    \/ CallSendEmail
    \/ CallSendEmailWithCCAndBCC
    \/ CallScheduleEmail
    \/ GoWake
    \/ GoSendMail
    \/ GoPublish
    \/ MailTick

SpecMail == Init /\ [][NextMail]_vars

\* the callers of CheckAndEnableUUIDExtension
NextPostgres ==
    CallCheckAndEnableUUIDExtension

SpecPostgres == Init /\ [][NextPostgres]_vars

\* a server's main function, its goroutines, the signals and the requests
NextServer ==
    \/ NewServer
    \/ CallStart
    \/ GoListen
    \/ CallGracefulShutdown
    \/ Interrupt
    \/ GsShutdown
    \/ GsReturn
    \/ ShutdownTick
    \/ RequestArrives
    \/ RequestDone

SpecServer == Init /\ [][NextServer]_vars

\* the goroutine of GracefulShutdown runs, requests are answered and time
\* passes
SpecServerFair ==
    /\ SpecServer
    /\ WF_vars(GsShutdown) /\ WF_vars(GsReturn)
    /\ WF_vars(ShutdownTick) /\ WF_vars(RequestDone)

\* the Go scheduler runs every runnable goroutine, and time passes
SpecMailFair ==
    /\ SpecMail
    /\ WF_vars(GoWake) /\ WF_vars(GoSendMail)
    /\ WF_vars(GoPublish) /\ WF_vars(MailTick)

----------------------------------------------------------------------------
(* Claims about the token subsystem (Spec, SpecFactory). *)

\* the last step was ValidateToken, by the issuing manager, of the token
\* held, exactly as GenerateToken returned it
ValidatedOwn ==
    /\ ret.op = "ValidateToken"
    /\ held # <<>>
    /\ ret.mgr = held[1].mgr
    /\ ret.token = held[1].token

\* C1: every payload NewPayload returns has ExpiredAt strictly later than
\* IssuedAt, whatever the duration.  (Stated as the claim states it; the
\* code accepts durations <= 0.)
C1_ExpiredAfterIssued ==
    \A i \in DOMAIN held : held[i].payload.ExpiredAt > held[i].payload.IssuedAt

\* C2: for a positive duration, ValidateToken by the issuing manager, not
\* after the expiry of the issued payload, of the string GenerateToken
\* returned gives a nil error and a payload with the UserID and Username
\* passed to GenerateToken and the ID generated at issuance.
C2_RoundTrip ==
    (/\ ValidatedOwn
     /\ held[1].duration > 0
     /\ ret.at <= held[1].payload.ExpiredAt)
    => /\ ret.err = NoErr
       /\ ret.payload # <<>>
       /\ ret.payload[1].UserID = held[1].userID
       /\ ret.payload[1].Username = held[1].username
       /\ ret.payload[1].ID = held[1].payload.ID

\* C3: ValidateToken by the issuing manager of a token whose expiry time
\* has passed returns a nil payload and ErrExpiredToken, on both backends.
C3_ExpiredIsErrExpired ==
    (/\ ValidatedOwn
     /\ ret.at > held[1].payload.ExpiredAt)
    => /\ ret.payload = <<>>
       /\ ret.err = ErrExpiredToken

C3_Witness ==
    /\ ValidatedOwn
    /\ held[1].duration > 0
    /\ held[1].mgr.backend = TokenTypePaseto
    /\ ret.at > held[1].payload.ExpiredAt
    /\ ret.err = ErrExpiredToken

\* C4: for a duration d > 0, a token issued at t is accepted (nil error) by
\* its manager at every time t' with t <= t' <= t + d, on both backends.
C4_ValidForDuration ==
    (/\ ValidatedOwn
     /\ held[1].duration > 0
     /\ held[1].payload.IssuedAt <= ret.at
     /\ ret.at <= held[1].payload.IssuedAt + held[1].duration)
    => ret.err = NoErr

\* the token string of the last ValidateToken is not what GenerateToken of
\* a manager with this backend and this key returned: it was issued under
\* another key or by the other backend, or a character of it was changed,
\* or it is no token
NotOwn ==
    /\ ret.op = "ValidateToken"
    /\ ~ValidatedOwn

C6_ValidIffNotAfter ==
    ret.op = "Valid"
    => /\ ret.err \in {ErrExpiredToken, NoErr}
       /\ (ret.err = ErrExpiredToken) <=> (ret.at > ret.payload.ExpiredAt)

C6_Witness ==
    /\ ret.op = "Valid"
    /\ ret.at = ret.payload.ExpiredAt
    /\ ret.err = NoErr

C8_KeyValidation ==
    /\ ret.op = "NewJWTMaker"
       => ((ret.err # NoErr /\ ret.mgr = <<>>) <=> Len(ret.secretKey) = 0)
    /\ ret.op = "NewPasetoMaker"
       => ((ret.err # NoErr /\ ret.mgr = <<>>) <=> Len(ret.secretKey) # 32)
    /\ ret.op \in {"NewJWTMaker", "NewPasetoMaker", "NewTokenManager"}
       => /\ ~(ret.mgr # <<>> /\ ret.err # NoErr)
          /\ ~(ret.mgr = <<>> /\ ret.err = NoErr)

C8_Witness ==
    /\ ret.op = "NewPasetoMaker"
    /\ Len(ret.secretKey) = 33
    /\ ret.mgr = <<>>
    /\ ret.err # NoErr

\* C9: no two issued payloads carry the same ID, and the ID of a payload is
\* the value uuid.NewRandom returned for it, whatever the UserID.  (The
\* random source is taken to return a fresh value at each draw.)
C9_FreshTokenID ==
    /\ \A i, j \in DOMAIN issued : i # j => issued[i].id # issued[j].id
    /\ \A i \in DOMAIN issued : issued[i].id = issued[i].draw

C9_Witness ==
    /\ Len(issued) >= 2
    /\ held # <<>>
    /\ held[1].userID = 1
    /\ issued[1].id = 0
    /\ issued[2].id = 1

----------------------------------------------------------------------------
(* Claims about the connect helpers (SpecConnect). *)

\* C10: in one call of a connect helper the number of connection attempts
\* never exceeds maxRetries (none is made when maxRetries <= 0), and no
\* attempt is started once the context has been observed as done.
C10_BoundedAttempts ==
    /\ [](conn.pc # "idle"
          => conn.attempts <= (IF conn.maxRetries > 0 THEN conn.maxRetries ELSE 0))
    /\ [][(conn.pc # "idle" /\ conn.observedDone)
          => conn'.attempts = conn.attempts]_vars

C10_Witness ==
    /\ conn.pc \in {"returned", "exited"}
    /\ conn.maxRetries >= 2
    /\ conn.attempts = conn.maxRetries
    /\ conn.handle = "nil"

\* the call has ended: it returned, or the process exited
ConnectEnded == conn.pc \in {"returned", "exited"}

\* C11: when the loop of a connect helper ends without a successful attempt
\* (every attempt failed, or maxRetries <= 0), the helper returns a nil
\* handle and a non-nil error to its caller; for every helper.
C11_FailureReturnsError ==
    (/\ ConnectEnded
     /\ ~DSNMissing(conn.dsn)
     /\ conn.handle = "nil"
     /\ ~conn.observedDone)
    => /\ conn.pc = "returned"
       /\ conn.result = ErrRetries

\* C12: whenever the deadline has passed before any attempt succeeded, the
\* helper returns the context-timeout error.  (Read generously: at least
\* one attempt was made, an error that wraps the context's own error counts
\* as a timeout error, and the helpers that end in log.Fatalf are left out.)
C12_TimeoutReturnsCtxError ==
    (/\ ConnectEnded
     /\ ~DSNMissing(conn.dsn)
     /\ ~Fatal(conn.fn)
     /\ conn.done
     /\ conn.attempts >= 1
     /\ conn.handle = "nil")
    => \/ conn.result = ErrCtx
       \/ conn.result = ErrRetries /\ conn.err = ErrDeadline

\* C13: a connect helper called with an empty DSN returns a nil handle and
\* a non-nil error, makes no attempt and does not sleep, for every
\* maxRetries and timeout.
C13_EmptyDSN ==
    (conn.pc # "idle" /\ conn.dsn = "")
    => /\ conn.pc = "returned"
       /\ conn.handle = "nil"
       /\ conn.result = ErrMissingDSN
       /\ conn.attempts = 0
       /\ conn.sleeps = 0

C13_Witness ==
    /\ conn.pc = "returned"
    /\ conn.dsn = ""
    /\ conn.maxRetries >= 2
    /\ ~conn.done
    /\ conn.result = ErrMissingDSN

\* C14: when the log file cannot be opened, SetUpLoggerFile returns a
\* non-nil error and logging falls back to stdout only: the fallback is
\* announced in the log output and later messages still reach stdout.
C14_OpenFailureIsError ==
    lg.ret.openFailed
    => /\ lg.ret.err # NoErr
       /\ lg.ret.file = <<>>
       /\ lg.out = {Stdout}
       /\ \E e \in lg.content :
            e[2] = MsgFallback(LogFilePath(lg.ret.ts, lg.ret.name))
       /\ \A m \in lg.since : <<Stdout, MsgApp(m)>> \in lg.content

\* C15: after SetUpLoggerFile has returned a non-nil file, the logs
\* directory exists, the file is logs/<timestamp>_<logFileName>, and every
\* message logged afterwards is written to stdout and to that file.
C15_FileAndStdout ==
    lg.ret.file # <<>>
    => LET f == lg.ret.file[1]
       IN  /\ lg.ret.err = NoErr
           /\ lg.dir
           /\ f = [dir |-> "logs", ts |-> lg.ret.ts, name |-> lg.ret.name]
           /\ f \in lg.files
           /\ \A m \in lg.since :
                {<<Stdout, MsgApp(m)>>, <<f, MsgApp(m)>>} \subseteq lg.content

C15_Witness ==
    /\ lg.ret.file # <<>>
    /\ lg.ret.fn = "mygopher.SetUpLoggerFile"
    /\ lg.ret.ts = 1
    /\ Cardinality(lg.since) = 2

\* C16: whenever the SMTP send made for a call of a send method of
\* EmailRoutineService fails, the error returned to the caller is non-nil.
C16_RoutineSendReturnsError ==
    \A i \in DOMAIN mail.calls :
        LET c == mail.calls[i]
        IN  (/\ c.svc = "EmailRoutineService"
             /\ c.method \in {"SendEmail", "SendEmailWithCCAndBCC"}
             /\ c.sent >= 1
             /\ ~c.ok)
            => c.ret # NoErr

\* the i-th call is a ScheduleEmail call with sendAt in the future
ScheduledAhead(i) ==
    /\ i \in DOMAIN mail.calls
    /\ mail.calls[i].method = "ScheduleEmail"
    /\ mail.calls[i].sendAt > mail.calls[i].at

\* the email of the i-th call has been handed to SMTP once
SentOnce(i) == i \in DOMAIN mail.calls /\ mail.calls[i].sent = 1

\* what C19 says of a ScheduleEmail call c at every moment
ScheduleSafe(c) ==
    IF c.sendAt <= c.at
    THEN /\ c.ret # NoErr
         /\ c.sent = 0
         /\ c.outer = "none" /\ c.inner = "none"
    ELSE /\ c.ret = NoErr
         /\ c.sent <= 1
         /\ c.sent = 1 => c.sentAt >= c.sendAt

\* C19: ScheduleEmail with sendAt not in the future returns an error and no
\* email is ever sent for the call; with sendAt in the future it returns
\* nil at once, and the email is handed to SMTP exactly once (at most once
\* at every moment, and eventually once) and never before sendAt.
C19_ScheduleEmail ==
    /\ [](\A i \in DOMAIN mail.calls :
            mail.calls[i].method = "ScheduleEmail"
            => ScheduleSafe(mail.calls[i]))
    /\ \A i \in 1..MaxCalls :
            ScheduledAhead(i) ~> SentOnce(i)

\* both services have sent an email scheduled ahead, one of them later than
\* its sendAt
C19_Witness ==
    /\ Len(mail.calls) = 2
    /\ ScheduledAhead(1) /\ ScheduledAhead(2)
    /\ mail.calls[1].svc = "EmailService"
    /\ mail.calls[2].svc = "EmailRoutineService"
    /\ mail.calls[1].sent = 1 /\ mail.calls[2].sent = 1
    /\ mail.calls[1].ret = NoErr
    /\ mail.calls[2].sentAt > mail.calls[2].sendAt

\* the calls of SendEmailWithCCAndBCC whose message has reached SMTP
CCSent ==
    {i \in DOMAIN mail.calls :
        /\ mail.calls[i].method = "SendEmailWithCCAndBCC"
        /\ mail.calls[i].sent = 1}

\* C20: SendEmailWithCCAndBCC hands the message to SMTP for every address
\* of to, cc and bcc; the cc addresses are in the CC header; and the
\* message bytes do not depend on bcc: two calls that differ only in bcc
\* hand identical bytes to SMTP.
C20_BCCHidden ==
    /\ \A i \in CCSent :
        LET c == mail.calls[i]
        IN  /\ \A l \in {To, c.cc, c.bcc} : \A k \in DOMAIN l :
                  \E j \in DOMAIN c.rcpt : c.rcpt[j] = l[k]
            /\ \E h \in DOMAIN c.msg : c.msg[h] = <<"CC", c.cc>>
    /\ \A i, j \in CCSent :
        (/\ mail.calls[i].svc = mail.calls[j].svc
         /\ mail.calls[i].cc = mail.calls[j].cc)
        => mail.calls[i].msg = mail.calls[j].msg

\* C17: Start returns any error encountered during startup: when the
\* listening call fails (port in use, TLS files unusable), the error Start
\* returned is non-nil.
C17_StartReturnsError ==
    srv.listen = "failed" => srv.startRet \notin {"none", NoErr}

ExtCallsRight ==
    \A i \in DOMAIN pg.calls :
        LET c == pg.calls[i]
        IN  /\ c.ret = NoErr => c.enabled
            /\ c.execs > 0 => c.query = "sql.ErrNoRows" /\ c.execs = 1
            /\ c.query = "error" => c.ret # NoErr /\ c.execs = 0

\* C21 as stated: the above, and a call that follows a successful call
\* returns nil and executes no CREATE EXTENSION.
C21_AsStated ==
    /\ ExtCallsRight
    /\ \A i \in DOMAIN pg.calls :
        (i > 1 /\ pg.calls[i - 1].ret = NoErr)
        => pg.calls[i].ret = NoErr /\ pg.calls[i].execs = 0

\* C21, amended: the above, and a call that follows a successful call
\* executes no CREATE EXTENSION, and returns nil unless db.DB() or the
\* catalogue query fails.
C21_UUIDExtension ==
    /\ ExtCallsRight
    /\ \A i \in DOMAIN pg.calls :
        (i > 1 /\ pg.calls[i - 1].ret = NoErr)
        => /\ pg.calls[i].execs = 0
           /\ pg.calls[i].query = "row" => pg.calls[i].ret = NoErr
           /\ pg.calls[i].ret # NoErr
              => ~pg.calls[i].dbOK \/ pg.calls[i].query = "error"

\* the extension was missing, a first call created it, a second call found
\* it, and a third call failed to query the catalogue
C21_Witness ==
    /\ Len(pg.calls) = 3
    /\ pg.calls[1].query = "sql.ErrNoRows" /\ pg.calls[1].ret = NoErr
    /\ pg.calls[2].query = "row" /\ pg.calls[2].ret = NoErr
    /\ pg.calls[2].execs = 0
    /\ pg.calls[3].query = "error" /\ pg.calls[3].ret = ErrCheckExt

\* C22: a connect helper stops at the first successful attempt and returns
\* its handle with a nil error (every attempt before it failed and consumed
\* one iteration); in the helpers that ping, a returned handle has been
\* pinged successfully, and a failed ping consumes the attempt and leads to
\* the retry sleep, not to a return.
C22_FirstSuccessPinged ==
    /\ [](/\ conn.pc \in {"loop", "attempt"} => conn.attempts = conn.i
          /\ conn.pc = "sleep"
             => /\ conn.attempts = conn.i + 1
                /\ conn.handle = "nil" /\ conn.err # NoErr
          /\ (conn.pc # "idle" /\ conn.handle # "nil")
             => /\ conn.pc = "returned"
                /\ conn.result = NoErr /\ conn.err = NoErr
                /\ conn.attempts = conn.i + 1
                /\ Pings(conn.fn) => conn.pinged)
    /\ [][(conn.pc = "attempt" /\ conn'.pingFails > conn.pingFails)
          => /\ conn'.pc = "sleep"
             /\ conn'.handle = "nil"
             /\ conn'.attempts = conn.attempts + 1]_vars

\* a pinging helper returned the handle of its third attempt after two
\* failed pings
C22_Witness ==
    /\ conn.pc = "returned"
    /\ Pings(conn.fn)
    /\ conn.handle # "nil"
    /\ conn.pinged
    /\ conn.pingFails = 2
    /\ conn.attempts = 3

\* C23: JWTMaker.ValidateToken rejects every token whose header declares a
\* signing method that is not HMAC ("none", an asymmetric method) with a
\* nil payload and ErrInvalidToken, whatever its claims and signature are.
C23_OnlyHMAC ==
    (/\ ret.op = "ValidateToken"
     /\ ret.mgr.backend = TokenTypeJWT
     /\ ret.token.kind = "jwt"
     /\ ret.token.alg \notin HMACMethods)
    => /\ ret.payload = <<>>
       /\ ret.err = ErrInvalidToken

\* the manager that issued a token is handed the same claims, unexpired, in
\* an unsigned token
C23_Witness ==
    /\ ret.op = "ValidateToken"
    /\ held # <<>>
    /\ ret.mgr = held[1].mgr
    /\ ret.mgr.backend = TokenTypeJWT
    /\ ret.token.kind = "jwt"
    /\ ret.token.alg = "none"
    /\ ret.token.sig = NoneSig(ret.token.claims)
    /\ ret.token.claims = held[1].token.claims
    /\ ret.at < TimeUnix(ret.token.claims.expired_at)
    /\ ret.err = ErrInvalidToken

\* the last call validated a token signed under the manager's key whose
\* claims are malformed
SignedMalformed ==
    /\ ret.op = "ValidateToken"
    /\ ret.mgr.backend = TokenTypeJWT
    /\ ret.token = Signed(ret.mgr.symmetricKey, ret.token.claims)
    /\ \/ ~(JWTClaimNames \subseteq DOMAIN ret.token.claims)
       \/ Mistyped(ret.token.claims) # {}
       \/ ret.token.claims.id = NotUUID
       \/ ret.token.claims.user_id = NotUUID

\* C24: for a token correctly signed with the manager's key whose claims
\* lack id, user_id, username, issued_at or expired_at, or carry one with a
\* wrong type or an unparsable UUID, JWTMaker.ValidateToken returns a nil
\* payload and ErrInvalidToken, and does not panic.
C24_MalformedIsInvalid ==
    SignedMalformed => /\ ret.payload = <<>>
                       /\ ret.err = ErrInvalidToken

NextBulk ==
    \/ CallSendBulkEmail
    \/ CallSendBatchEmail

SpecBulk == Init /\ [][NextBulk]_vars

\* C26: a synchronous bulk send hands smtp.SendMail one message per
\* recipient, in list order, up to and including the first send that fails;
\* it returns that send's error, nothing is sent to the recipients after it,
\* and it returns nil only if every recipient was sent to without error.
C26_BulkStopsAtFirstFailure ==
    bulk.method # "none"
    => LET n == Len(bulk.to)
           k == Len(bulk.sends)
       IN  /\ k <= n
           /\ \A j \in 1..k :
                /\ bulk.sends[j].rcpt = <<bulk.to[j]>>
                /\ bulk.sends[j].msg = BulkMessage(bulk.method, bulk.isHtml)
                /\ j < k => bulk.sends[j].err = NoErr
           /\ IF bulk.ret = NoErr
              THEN k = n /\ \A j \in 1..k : bulk.sends[j].err = NoErr
              ELSE k >= 1 /\ bulk.sends[k].err = bulk.ret

\* three recipients, the send to the second fails: one delivered, the
\* third never tried, the second's error returned
C26_Witness ==
    /\ bulk.method = "SendBatchEmail"
    /\ Len(bulk.to) = 3
    /\ Len(bulk.sends) = 2
    /\ bulk.sends[1].err = NoErr
    /\ bulk.ret = "smtp: 550 mailbox unavailable"
    /\ bulk.sends[2].err = bulk.ret

\* EmailRoutineService and EmailResultsChan
NextChan ==
    \/ CallNewEmailRoutineService
    \/ StartUserConsumer
    \/ RoutineSendEmail
    \/ RoutineScheduleEmail
    \/ RoutineSendBulkEmail
    \/ GoCallSendEmail
    \/ GoSmtpSendMail
    \/ ChanRendezvous
    \/ ConsumerLog

SpecChan == Init /\ [][NextChan]_vars

\* the results sent and received about the email of sending goroutine i:
\* its own and that of the goroutine that called SendEmail for it
ResultsAbout(i) ==
    {j \in DOMAIN ch.gs :
        /\ ch.gs[j].pc = "done"
        /\ j = i \/ ch.gs[j].child = i}

\* C27: for every email EmailRoutineService has handed to SMTP, at most one
\* EmailResult is published on EmailResultsChan, exactly one once its
\* goroutines are through, and the Error of a published result is the
\* outcome of that SMTP send.
C27_OneResultPerEmail ==
    \A i \in DOMAIN ch.gs :
        (ch.gs[i].kind = "inner" /\ ch.gs[i].pc \in {"sending", "done"})
        => /\ Cardinality(ResultsAbout(i)) <= 1
           /\ ch.gs[i].pc = "done" => Cardinality(ResultsAbout(i)) = 1
           /\ \A j \in ResultsAbout(i) : ch.gs[j].err = ch.gs[i].outcome

\* the goroutines run, the channel hands over whenever a sender and a
\* receiver wait on it, a consumer finishes logging; the callers are free
SpecChanFair ==
    /\ SpecChan
    /\ WF_vars(GoCallSendEmail)
    /\ WF_vars(GoSmtpSendMail)
    /\ WF_vars(ChanRendezvous)
    /\ WF_vars(ConsumerLog)

Sending(i) == i \in DOMAIN ch.gs /\ ch.gs[i].pc = "sending"
Delivered(i) == i \in DOMAIN ch.gs /\ ch.gs[i].pc = "done"

\* C28: with the consumers of the service instances running (and the
\* caller's own, if started), every goroutine of a send method that is at
\* its send on EmailResultsChan eventually completes it, and every result
\* sent has been received by exactly one consumer, none before it is sent.
C28_EverySendCompletes ==
    /\ \A i \in 1..MaxGoroutines : Sending(i) ~> Delivered(i)
    /\ [](\A i \in DOMAIN ch.gs :
            Cardinality(ch.gs[i].recv)
              = IF ch.gs[i].pc = "done" THEN 1 ELSE 0)

\* two service instances and the caller's consumer range over the channel,
\* and the two results of a scheduled email went to different consumers,
\* one of them the caller's
C28_Witness ==
    /\ ch.svcs = 2
    /\ ch.user
    /\ \E i, j \in DOMAIN ch.gs :
         /\ ch.gs[i].kind = "schedule"
         /\ ch.gs[i].child = j
         /\ Delivered(i)
         /\ Delivered(j)
         /\ ch.gs[i].recv # ch.gs[j].recv
         /\ \E c \in ch.gs[i].recv \cup ch.gs[j].recv :
              ch.cons[c].who = "user"

====
